---- MODULE Spec2Model ----
(***************************************************************************)
(* Model of the voice-conversation controller (class VoiceConversation)    *)
(* and of the material selection of class AITeacher that feeds it.         *)
(*                                                                         *)
(* One action per event-loop task: a public method call, a recognizer      *)
(* event, a timer expiry, an animation-frame callback, a synthesizer       *)
(* event, the settlement of getUserMedia and of the /ask fetch.  Code that *)
(* runs between two awaits (microtasks included) is one atomic action.     *)
(*                                                                         *)
(* Host objects are modelled by what the handlers can observe of them:     *)
(*   - timers: the number of pending callbacks of each kind, and whether   *)
(*     the handle stored in this.silenceTimeout still names a pending one; *)
(*   - SpeechRecognition: idle / running / stopping / ending;              *)
(*   - speechSynthesis: its queue of utterances (the head speaking or      *)
(*     about to), the end/error callbacks it still owes to cancelled       *)
(*     utterances, and what its attribute speaking reports for an          *)
(*     utterance that has not started, which differs between engines;      *)
(*   - capture: the MediaStreams and AudioContexts created and not yet     *)
(*     released, besides the three fields that reference the current set.  *)
(* Spec is the voice conversation, LiveSpec adds the delivery of the       *)
(* recognizer's end event, TextSpec is the text mode of AITeacher.         *)
(* Not modelled: the transcript echo of updateUserSpeech, the CSS flash of *)
(* flashInterruption, alert() dialogs, the voice selection and the markup  *)
(* clean-up inside speak().                                                *)
(***************************************************************************)
EXTENDS Integers, Sequences, FiniteSets, TLC

\* ------------------------------------------------------------------ bounds
\* getUserMedia requests over one behaviour (granted or still pending)
MaxStarts == 2
\* end/error callbacks owed to cancelled utterances at one time
MaxCancelled == 1
\* pending silence timers at one time (the code never exceeds one)
MaxTimers == 2
\* /ask requests in flight at one time (the code never exceeds one)
MaxInflight == 2

\* text-mode /ask requests in flight at one time
MaxText == 2
\* utterances queued behind the head of the speechSynthesis queue
MaxQueued == 1

\* ------------------------------------------------------- program constants
INTERRUPTION_THRESHOLD == 35
SILENCE_THRESHOLD == 30
\* transcript.length > 3 triggers the interruption
InterruptLen == 3
\* question.length < 3 is not processed
MinQuestionLen == 3

NoWindow == [last |-> << >>, n |-> 0]

Null == "null"
None == [text |-> << >>, started |-> FALSE]

\* ------------------------------------------------------------------ inputs
\* raw transcripts of a recognition result, as sequences of characters:
\* blank, 2 characters once trimmed, exactly 3, more than 3
RawTranscripts ==
    { <<" ">>,
      <<" ", "h", "i", " ">>,
      <<"w", "h", "y">>,
      <<"w", "h", "a", "t">> }

\* the recognition results delivered: each transcript as an interim result,
\* and all but the 3-character one also as a final result
Results ==
    { r \in RawTranscripts \X BOOLEAN : r[1] = <<"w", "h", "y">> => ~r[2] }

\* averaged byte-frequency levels sampled by a tick
Levels == {35, 36}

\* outcomes of the POST /ask: ok, non-OK status, rejected fetch
Outcomes == {"ok", "http_error", "rejected"}

\* what the user types into #questionInput
TextInputs == { << >>, <<" ">>, <<" ", "h", "i", " ">>, <<"w", "h", "a", "t">> }

\* outcomes of the text-mode POST /ask: ok, non-OK status with a JSON body,
\* non-OK status with a body that is not JSON, rejected fetch
TextOutcomes == {"ok", "http_error_json", "http_error_text", "rejected"}

IsSpace(c) == c = " "

RECURSIVE TrimStart(_)
TrimStart(s) ==
    IF s = << >> THEN << >>
    ELSE IF IsSpace(Head(s)) THEN TrimStart(Tail(s)) ELSE s

RECURSIVE TrimEnd(_)
TrimEnd(s) ==
    IF s = << >> THEN << >>
    ELSE IF IsSpace(s[Len(s)]) THEN TrimEnd(SubSeq(s, 1, Len(s) - 1)) ELSE s

\* String.prototype.trim
Trim(s) == TrimEnd(TrimStart(s))

\* texts shown on the whiteboard or given to speak(), as sequences of tokens
WelcomeText == <<"welcome">>
ApologyText == <<"apology">>
ReadyBanner == <<"ready">>
Unavailable == <<"unavailable">>
\* data.answer of the response to a question
AnswerTo(q) == <<"answer">> \o q
\* the loading and the error paragraph of askTextQuestion
SearchingText == <<"searching">>
TextErrorText == <<"error">>
\* data.answer of the JSON body of a non-OK response, as displayed
ErrorBodyAnswer == <<"undefined">>

VARIABLES
    supported,          \* window.SpeechRecognition exists (fixed at construction)
    eagerSpeaking,      \* speechSynthesis.speaking is true for an utterance that
                        \* was submitted and has not started yet (fixed by the
                        \* engine: TRUE in Blink and WebKit; FALSE where the
                        \* attribute is true only once speaking has begun)
    currentIndexName,   \* AITeacher.currentIndexName, read through getCurrentPdf
    isConversationActive,
    isSpeaking,
    isProcessing,
    lastTranscript,
    silenceTimeout,     \* TRUE iff this.silenceTimeout names a pending timer
    pendingSilence,     \* pending silence-timer callbacks
    welcomeTimers,      \* pending 500 ms welcome callbacks
    rafPending,         \* pending requestAnimationFrame(checkAudioLevel) callbacks
    recState,           \* state of this.recognition
    utterance,          \* head of the speechSynthesis queue (None: empty)
    queued,             \* texts of the utterances queued behind the head
    cancelledEvents,    \* end/error callbacks owed to cancelled utterances
    audioContext,       \* this.audioContext # null
    microphone,         \* this.microphone # null
    analyser,           \* this.analyser # null
    liveContexts,       \* AudioContexts created and not closed
    liveStreams,        \* MediaStreams obtained (no track is ever stopped)
    pendingStarts,      \* startConversation calls awaiting getUserMedia
    inflight,           \* /ask requests sent and not settled, oldest first
    whiteboard,         \* what displayAnswer last rendered
    status,             \* class of #voiceStatus
    buttonsActive,      \* toggleButtons(isActive)
    volume,             \* level last given to updateVolumeIndicator
    uncaught,           \* the last task ended with an uncaught exception
    window,             \* history of the open silence window: the last non-empty
                        \* final transcript and how many it has coalesced (2: two
                        \* or more); NoWindow while no silence timer is pending
    questionInput,      \* value of #questionInput (text mode)
    textRequests        \* /ask requests of askTextQuestion sent and not settled

vars == << supported, eagerSpeaking, queued, currentIndexName,
           isConversationActive, isSpeaking,
           isProcessing, lastTranscript, silenceTimeout, pendingSilence,
           welcomeTimers, rafPending, recState, utterance, cancelledEvents,
           audioContext, microphone, analyser, liveContexts, liveStreams,
           pendingStarts, inflight, whiteboard, status, buttonsActive, volume,
           uncaught, window, questionInput, textRequests >>

\* groups used in UNCHANGED
flagVars == << isConversationActive, isSpeaking, isProcessing >>
timerVars == << silenceTimeout, pendingSilence, welcomeTimers >>
synthVars == << utterance, cancelledEvents, queued >>
captureVars == << audioContext, microphone, analyser, liveContexts,
                  liveStreams, pendingStarts, rafPending >>
uiVars == << whiteboard, status, buttonsActive, volume >>
textVars == << questionInput, textRequests >>
\* what no step of the voice controller changes
fixedVars == << supported, eagerSpeaking, textVars >>

\* -------------------------------------------------------------------- Init
Init ==
    /\ supported \in BOOLEAN
    /\ eagerSpeaking \in BOOLEAN
    /\ currentIndexName \in {Null, "m1"}
    /\ isConversationActive = FALSE
    /\ queued = << >>
    /\ isSpeaking = FALSE
    /\ isProcessing = FALSE
    /\ lastTranscript = << >>
    /\ silenceTimeout = FALSE
    /\ pendingSilence = 0
    /\ welcomeTimers = 0
    /\ rafPending = 0
    /\ recState = "idle"
    /\ utterance = None
    /\ cancelledEvents = 0
    /\ audioContext = FALSE
    /\ microphone = FALSE
    /\ analyser = FALSE
    /\ liveContexts = 0
    /\ liveStreams = 0
    /\ pendingStarts = 0
    /\ inflight = << >>
    /\ whiteboard = IF currentIndexName = Null THEN Unavailable ELSE ReadyBanner
    /\ status = IF supported THEN "none" ELSE "error"
    /\ buttonsActive = FALSE
    /\ volume = 0
    /\ uncaught = FALSE
    /\ window = NoWindow
    /\ questionInput = << >>
    /\ textRequests = << >>

\* ------------------------------------------------- sequential code helpers
\* The fields that the helpers below read and write one after another
\* within a task; Commit assigns the final values.
Cur ==
    [ utterance |-> utterance, queued |-> queued,
      cancelledEvents |-> cancelledEvents,
      isSpeaking |-> isSpeaking, silenceTimeout |-> silenceTimeout,
      pendingSilence |-> pendingSilence, status |-> status ]

Commit(c) ==
    /\ c.cancelledEvents <= MaxCancelled
    /\ c.pendingSilence <= MaxTimers
    /\ Len(c.queued) <= MaxQueued
    /\ utterance' = c.utterance
    /\ queued' = c.queued
    /\ cancelledEvents' = c.cancelledEvents
    /\ isSpeaking' = c.isSpeaking
    /\ silenceTimeout' = c.silenceTimeout
    /\ pendingSilence' = c.pendingSilence
    /\ status' = c.status

\* the history variable follows the pending silence window
KeepWindow(c) == IF c.pendingSilence = 0 THEN NoWindow ELSE window

CommitW(c) ==
    /\ Commit(c)
    /\ window' = KeepWindow(c)

\* speechSynthesis.speaking
synthesisSpeaking(c) ==
    c.utterance # None /\ (c.utterance.started \/ eagerSpeaking)

\* speechSynthesis.cancel(): the queue is emptied; the utterance at its head
\* is owed an end or error callback
synthesisCancel(c) ==
    [c EXCEPT !.utterance = None, !.queued = << >>,
              !.cancelledEvents = @ + 1]

\* speechSynthesis.speak(u): u is appended to the queue
synthesisSpeak(c, text) ==
    IF c.utterance = None
    THEN [c EXCEPT !.utterance = [text |-> text, started |-> FALSE]]
    ELSE [c EXCEPT !.queued = Append(@, text)]

\* the queue once its head is removed
NextUtterance ==
    IF queued = << >> THEN None
    ELSE [text |-> Head(queued), started |-> FALSE]

updateStatus(c, statusClass) == [c EXCEPT !.status = statusClass]

\* clearTimeout(this.silenceTimeout)
clearSilenceTimeout(c) ==
    IF c.silenceTimeout
    THEN [c EXCEPT !.silenceTimeout = FALSE, !.pendingSilence = @ - 1]
    ELSE c

\* this.silenceTimeout = setTimeout(..., SILENCE_DURATION)
setSilenceTimeout(c) ==
    [c EXCEPT !.silenceTimeout = TRUE, !.pendingSilence = @ + 1]

stopSpeaking(c) ==
    IF synthesisSpeaking(c)
    THEN [synthesisCancel(c) EXCEPT !.isSpeaking = FALSE]
    ELSE [c EXCEPT !.isSpeaking = FALSE]

speak(c, text) == synthesisSpeak(stopSpeaking(c), text)

\* handleInterruption with its guard inverted
handleInterruption_Inverted(c) ==
    IF c.isSpeaking THEN c
    ELSE updateStatus(clearSilenceTimeout(stopSpeaking(c)), "listening")

\* handleInterruption without its clearTimeout
handleInterruption_NoClear(c) ==
    IF ~c.isSpeaking THEN c
    ELSE updateStatus(stopSpeaking(c), "listening")

handleInterruption(c) ==
    IF ~c.isSpeaking THEN c
    ELSE updateStatus(clearSilenceTimeout(stopSpeaking(c)), "listening")

\* recognition.start(): throws InvalidStateError unless idle (always caught)
recognitionStart(rs) == IF rs = "idle" THEN "running" ELSE rs

\* recognition.stop()
recognitionStop(rs) == IF rs = "running" THEN "stopping" ELSE rs

\* ------------------------------------------------------------ AITeacher
\* change handler of #pdfSelect (registered only when the list was loaded)
SelectMaterial(v) ==
    /\ currentIndexName # Null
    /\ v # currentIndexName
    /\ currentIndexName' = v
    /\ whiteboard' = IF v # "" THEN ReadyBanner ELSE whiteboard
    /\ uncaught' = FALSE
    /\ UNCHANGED << fixedVars, flagVars, lastTranscript, timerVars, recState,
                    synthVars, captureVars, inflight, status, buttonsActive, volume, window >>

\* ---------------------------------------------------- AITeacher, text mode
\* everything the text mode leaves alone
voiceVars == << supported, eagerSpeaking, flagVars, lastTranscript, timerVars,
                rafPending,
                recState, synthVars, audioContext, microphone, analyser,
                liveContexts, liveStreams, pendingStarts, inflight, status,
                buttonsActive, volume, uncaught, window >>

\* the user edits #questionInput
TypeQuestion(raw) ==
    /\ questionInput # raw
    /\ questionInput' = raw
    /\ UNCHANGED << voiceVars, currentIndexName, whiteboard, textRequests >>

\* askTextQuestion up to the await of fetch
askTextQuestion ==
    LET question == Trim(questionInput)
    IN  /\ IF question = << >> \/ currentIndexName \in {Null, ""}
           THEN UNCHANGED << whiteboard, textRequests >>
           ELSE /\ Len(textRequests) < MaxText
                /\ whiteboard' = SearchingText
                /\ textRequests' =
                       Append(textRequests, [question |-> question,
                                             index_name |-> currentIndexName])
        /\ UNCHANGED << voiceVars, currentIndexName, questionInput >>

\* the text request i settles: the rest of askTextQuestion
TextSettles(i, outcome) ==
    LET q == textRequests[i].question
    IN  /\ i \in 1..Len(textRequests)
        /\ textRequests' = SubSeq(textRequests, 1, i - 1) \o
                           SubSeq(textRequests, i + 1, Len(textRequests))
        /\ IF outcome \in {"rejected", "http_error_text"}
           THEN \* fetch rejects, or response.json() rejects on the body
                /\ whiteboard' = TextErrorText
                /\ questionInput' = questionInput
           ELSE \* response.json() resolves: data.answer is displayed
                /\ whiteboard' = IF outcome = "ok" THEN AnswerTo(q)
                                                   ELSE ErrorBodyAnswer
                /\ questionInput' = << >>
        /\ UNCHANGED << voiceVars, currentIndexName >>

\* ------------------------------------------------------ recognition.onresult
\* onresult without the clearTimeout that precedes setTimeout
onresult_NoClear(raw, isFinal) ==
    LET transcript == Trim(raw)
        c1 == IF isSpeaking /\ Len(transcript) > InterruptLen
              THEN handleInterruption(Cur) ELSE Cur
        arm == isFinal /\ Len(transcript) > 0
        c2 == IF arm THEN setSilenceTimeout(c1) ELSE c1
    IN  /\ supported
        /\ recState \in {"running", "stopping"}
        /\ lastTranscript' = IF arm THEN transcript ELSE lastTranscript
        /\ Commit(c2)
        /\ window' = IF arm
                     THEN [last |-> transcript,
                           n |-> IF pendingSilence > 0 /\ window.n > 0
                                 THEN 2 ELSE 1]
                     ELSE KeepWindow(c2)
        /\ uncaught' = FALSE
        /\ UNCHANGED << fixedVars, currentIndexName, isConversationActive,
                        isProcessing, welcomeTimers, recState, captureVars,
                        inflight, whiteboard, buttonsActive, volume >>

\* onresult with the interruption performed after the timer is armed
onresult_InterruptLast(raw, isFinal) ==
    LET transcript == Trim(raw)
        arm == isFinal /\ Len(transcript) > 0
        c1 == IF arm THEN setSilenceTimeout(clearSilenceTimeout(Cur)) ELSE Cur
        c2 == IF isSpeaking /\ Len(transcript) > InterruptLen
              THEN handleInterruption(c1) ELSE c1
    IN  /\ supported
        /\ recState \in {"running", "stopping"}
        /\ lastTranscript' = IF arm THEN transcript ELSE lastTranscript
        /\ Commit(c2)
        /\ window' = IF arm
                     THEN [last |-> transcript,
                           n |-> IF pendingSilence > 0 /\ window.n > 0
                                 THEN 2 ELSE 1]
                     ELSE KeepWindow(c2)
        /\ uncaught' = FALSE
        /\ UNCHANGED << fixedVars, currentIndexName, isConversationActive,
                        isProcessing, welcomeTimers, recState, captureVars,
                        inflight, whiteboard, buttonsActive, volume >>

onresult(raw, isFinal) ==
    LET transcript == Trim(raw)
        c1 == IF isSpeaking /\ Len(transcript) > InterruptLen
              THEN handleInterruption(Cur) ELSE Cur
        arm == isFinal /\ Len(transcript) > 0
        c2 == IF arm THEN setSilenceTimeout(clearSilenceTimeout(c1)) ELSE c1
    IN  /\ supported
        /\ recState \in {"running", "stopping"}
        /\ lastTranscript' = IF arm THEN transcript ELSE lastTranscript
        /\ Commit(c2)
        /\ window' = IF arm
                     THEN [last |-> transcript,
                           n |-> IF pendingSilence > 0 /\ window.n > 0
                                 THEN 2 ELSE 1]
                     ELSE KeepWindow(c2)
        /\ uncaught' = FALSE
        /\ UNCHANGED << fixedVars, currentIndexName, isConversationActive,
                        isProcessing, welcomeTimers, recState, captureVars,
                        inflight, whiteboard, buttonsActive, volume >>

\* ------------------------------------------------------------ processQuestion
\* up to the await of fetch: the guard, the flag, the status, the request
\* processQuestion without the length check
processQuestion_NoLen(question) ==
    IF isProcessing \/ question = << >>
    THEN UNCHANGED << isProcessing, inflight, status >>
    ELSE /\ Len(inflight) < MaxInflight
         /\ isProcessing' = TRUE
         /\ status' = "processing"
         /\ inflight' = Append(inflight, [question |-> question,
                                          index_name |-> currentIndexName])

\* processQuestion without the isProcessing guard
processQuestion_NoGuard(question) ==
    IF question = << >> \/ Len(question) < MinQuestionLen
    THEN UNCHANGED << isProcessing, inflight, status >>
    ELSE /\ Len(inflight) < MaxInflight
         /\ isProcessing' = TRUE
         /\ status' = "processing"
         /\ inflight' = Append(inflight, [question |-> question,
                                          index_name |-> currentIndexName])

processQuestion(question) ==
    IF isProcessing \/ question = << >> \/ Len(question) < MinQuestionLen
    THEN UNCHANGED << isProcessing, inflight, status >>
    ELSE /\ Len(inflight) < MaxInflight
         /\ isProcessing' = TRUE
         /\ status' = "processing"
         /\ inflight' = Append(inflight, [question |-> question,
                                          index_name |-> currentIndexName])

\* the silence timer expires: processQuestion(lastTranscript); lastTranscript = ''
\* orphan: the expiring timer is not the one this.silenceTimeout names
SilenceTimeout(orphan) ==
    /\ pendingSilence > 0
    /\ IF orphan THEN pendingSilence > (IF silenceTimeout THEN 1 ELSE 0)
                 ELSE silenceTimeout
    /\ pendingSilence' = pendingSilence - 1
    /\ silenceTimeout' = IF orphan THEN silenceTimeout ELSE FALSE
    /\ processQuestion(lastTranscript)
    /\ lastTranscript' = << >>
    /\ window' = IF pendingSilence = 1 THEN NoWindow ELSE window
    /\ uncaught' = FALSE
    /\ UNCHANGED << fixedVars, currentIndexName, isConversationActive,
                    isSpeaking, welcomeTimers, recState, synthVars,
                    captureVars, whiteboard, buttonsActive,
                    volume >>

\* the rest of processQuestion with the reset of isProcessing on the success
\* path only (no finally)
AskSettles_NoFinally(i, outcome) ==
    LET q == inflight[i].question
        shown == IF outcome = "ok" THEN AnswerTo(q) ELSE ApologyText
    IN  /\ i \in 1..Len(inflight)
        /\ inflight' = SubSeq(inflight, 1, i - 1) \o
                       SubSeq(inflight, i + 1, Len(inflight))
        /\ whiteboard' = shown
        /\ CommitW(speak(Cur, shown))
        /\ isProcessing' = (outcome # "ok")
        /\ uncaught' = FALSE
        /\ UNCHANGED << fixedVars, currentIndexName, isConversationActive,
                        lastTranscript, welcomeTimers, recState, captureVars,
                        buttonsActive, volume >>

\* the /ask request i settles: the rest of processQuestion
AskSettles(i, outcome) ==
    LET q == inflight[i].question
        shown == IF outcome = "ok" THEN AnswerTo(q) ELSE ApologyText
    IN  /\ i \in 1..Len(inflight)
        /\ inflight' = SubSeq(inflight, 1, i - 1) \o
                       SubSeq(inflight, i + 1, Len(inflight))
        /\ whiteboard' = shown
        /\ CommitW(speak(Cur, shown))
        /\ isProcessing' = FALSE
        /\ uncaught' = FALSE
        /\ UNCHANGED << fixedVars, currentIndexName, isConversationActive,
                        lastTranscript, welcomeTimers, recState, captureVars,
                        buttonsActive, volume >>

\* ------------------------------------------------- utterance callbacks
\* currentUtterance.onstart
onstart ==
    /\ isSpeaking' = TRUE
    /\ status' = "speaking"

\* currentUtterance.onend
onend ==
    /\ isSpeaking' = FALSE
    /\ status' = IF isConversationActive THEN "listening" ELSE status

\* currentUtterance.onerror
onerror ==
    /\ isSpeaking' = FALSE
    /\ status' = status

\* the synthesizer starts the utterance it holds
UtteranceStart ==
    /\ utterance # None
    /\ ~utterance.started
    /\ utterance' = [utterance EXCEPT !.started = TRUE]
    /\ onstart
    /\ uncaught' = FALSE
    /\ UNCHANGED << fixedVars, queued, currentIndexName, isConversationActive,
                    isProcessing, lastTranscript, timerVars, recState,
                    cancelledEvents, captureVars, inflight, whiteboard,
                    buttonsActive, volume, window >>

\* the utterance is spoken to its end
UtteranceEnd ==
    /\ utterance # None
    /\ utterance.started
    /\ utterance' = NextUtterance
    /\ queued' = IF queued = << >> THEN queued ELSE Tail(queued)
    /\ onend
    /\ uncaught' = FALSE
    /\ UNCHANGED << fixedVars, currentIndexName, isConversationActive,
                    isProcessing, lastTranscript, timerVars, recState,
                    cancelledEvents, captureVars, inflight, whiteboard,
                    buttonsActive, volume, window >>

\* the synthesizer fails on the utterance it holds
UtteranceError ==
    /\ utterance # None
    /\ utterance' = NextUtterance
    /\ queued' = IF queued = << >> THEN queued ELSE Tail(queued)
    /\ onerror
    /\ uncaught' = FALSE
    /\ UNCHANGED << fixedVars, currentIndexName, isConversationActive,
                    isProcessing, lastTranscript, timerVars, recState,
                    cancelledEvents, captureVars, inflight, whiteboard,
                    buttonsActive, volume, window >>

\* a cancelled utterance gets its callback: end or error, by engine version
CancelledCallback(asEnd) ==
    /\ cancelledEvents > 0
    /\ cancelledEvents' = cancelledEvents - 1
    /\ IF asEnd THEN onend ELSE onerror
    /\ uncaught' = FALSE
    /\ UNCHANGED << fixedVars, queued, currentIndexName, isConversationActive,
                    isProcessing, lastTranscript, timerVars, recState,
                    utterance, captureVars, inflight, whiteboard,
                    buttonsActive, volume, window >>

\* ------------------------------------------------------- checkAudioLevel
\* one run of checkAudioLevel on controller fields c with sampled level;
\* yields the fields, the level shown and whether it rescheduled itself
checkAudioLevel(c, active, hasAnalyser, level) ==
    IF ~active \/ ~hasAnalyser
    THEN [c |-> c, volume |-> volume, again |-> FALSE]
    ELSE [c |-> IF c.isSpeaking /\ level > INTERRUPTION_THRESHOLD
                THEN handleInterruption(c) ELSE c,
          volume |-> level, again |-> TRUE]

\* an animation-frame callback runs checkAudioLevel
AnimationFrame(level) ==
    LET r == checkAudioLevel(Cur, isConversationActive, analyser, level)
    IN  /\ rafPending > 0
        /\ CommitW(r.c)
        /\ volume' = r.volume
        /\ rafPending' = IF r.again THEN rafPending ELSE rafPending - 1
        /\ uncaught' = FALSE
        /\ UNCHANGED << fixedVars, currentIndexName, isConversationActive,
                        isProcessing, lastTranscript, welcomeTimers, recState,
                        audioContext, microphone, analyser, liveContexts,
                        liveStreams, pendingStarts, inflight, whiteboard,
                        buttonsActive >>

\* ------------------------------------------------------ startConversation
\* startConversation without the check of getCurrentPdf()
startConversation_NoCheck ==
    /\ liveStreams + pendingStarts < MaxStarts
    /\ status' = status
    /\ pendingStarts' = pendingStarts + 1
    /\ uncaught' = FALSE
    /\ UNCHANGED << fixedVars, currentIndexName, flagVars,
                    lastTranscript, timerVars, recState, synthVars,
                    audioContext, microphone, analyser, liveContexts,
                    liveStreams, rafPending, inflight, whiteboard,
                    buttonsActive, volume, window >>

\* up to the await of getUserMedia inside setupVAD
startConversation ==
    /\ IF currentIndexName \in {Null, ""}
       THEN /\ status' = "error"
            /\ pendingStarts' = pendingStarts
       ELSE /\ liveStreams + pendingStarts < MaxStarts
            /\ status' = status
            /\ pendingStarts' = pendingStarts + 1
    /\ uncaught' = FALSE
    /\ UNCHANGED << fixedVars, currentIndexName, flagVars, lastTranscript,
                    timerVars, recState, synthVars, audioContext, microphone,
                    analyser, liveContexts, liveStreams, rafPending, inflight,
                    whiteboard, buttonsActive, volume, window >>

\* getUserMedia resolves: the rest of setupVAD (monitorAudioLevels runs
\* checkAudioLevel once, synchronously), then the rest of startConversation
MicGranted(level) ==
    LET r == checkAudioLevel(Cur, isConversationActive, TRUE, level)
    IN  /\ pendingStarts > 0
        /\ pendingStarts' = pendingStarts - 1
        /\ liveStreams' = liveStreams + 1
        /\ liveContexts' = liveContexts + 1
        /\ audioContext' = TRUE
        /\ microphone' = TRUE
        /\ analyser' = TRUE
        /\ volume' = r.volume
        /\ rafPending' = IF r.again THEN rafPending + 1 ELSE rafPending
        /\ isConversationActive' = TRUE
        /\ recState' = IF supported THEN recognitionStart(recState) ELSE recState
        /\ CommitW(updateStatus(r.c, "listening"))
        /\ buttonsActive' = TRUE
        /\ welcomeTimers' = welcomeTimers + 1
        /\ uncaught' = FALSE
        /\ UNCHANGED << fixedVars, currentIndexName, isProcessing,
                        lastTranscript, inflight, whiteboard >>

\* startConversation going on although setupVAD returned false
MicDenied_Starts ==
    /\ pendingStarts > 0
    /\ welcomeTimers < MaxStarts
    /\ pendingStarts' = pendingStarts - 1
    /\ isConversationActive' = TRUE
    /\ recState' = IF supported THEN recognitionStart(recState) ELSE recState
    /\ CommitW(updateStatus(Cur, "listening"))
    /\ buttonsActive' = TRUE
    /\ welcomeTimers' = welcomeTimers + 1
    /\ uncaught' = FALSE
    /\ UNCHANGED << fixedVars, currentIndexName, isProcessing,
                    lastTranscript, audioContext, microphone, analyser,
                    liveContexts, liveStreams, rafPending, inflight,
                    whiteboard, volume >>

\* getUserMedia rejects: setupVAD reports and returns false
MicDenied ==
    /\ pendingStarts > 0
    /\ pendingStarts' = pendingStarts - 1
    /\ status' = "error"
    /\ uncaught' = FALSE
    /\ UNCHANGED << fixedVars, currentIndexName, flagVars, lastTranscript,
                    timerVars, recState, synthVars, audioContext, microphone,
                    analyser, liveContexts, liveStreams, rafPending, inflight,
                    whiteboard, buttonsActive, volume, window >>

\* the welcome timer of startConversation expires
WelcomeTimeout ==
    /\ welcomeTimers > 0
    /\ welcomeTimers' = welcomeTimers - 1
    /\ IF supported
       THEN /\ CommitW(speak(Cur, WelcomeText))
            /\ uncaught' = FALSE
       ELSE \* this.synthesis is undefined: stopSpeaking throws
            /\ CommitW(Cur)
            /\ uncaught' = TRUE
    /\ UNCHANGED << fixedVars, currentIndexName, isConversationActive,
                    isProcessing, lastTranscript, recState, captureVars,
                    inflight, whiteboard, buttonsActive, volume >>

\* ------------------------------------------------------- stopConversation
\* rs: the recognizer's state when stopConversation is entered
stopConversation(rs) ==
    IF supported
    THEN /\ isConversationActive' = FALSE
         /\ recState' = recognitionStop(rs)
         /\ CommitW(updateStatus(clearSilenceTimeout(stopSpeaking(Cur)),
                                "stopped"))
         /\ microphone' = FALSE
         /\ liveContexts' = IF audioContext THEN liveContexts - 1
                                            ELSE liveContexts
         /\ audioContext' = FALSE
         /\ analyser' = FALSE
         /\ buttonsActive' = FALSE
         /\ volume' = 0
         /\ uncaught' = FALSE
    ELSE \* this.recognition is undefined (caught); this.synthesis is
         \* undefined: stopSpeaking throws and the rest is skipped
         /\ isConversationActive' = FALSE
         /\ recState' = rs
         /\ CommitW(Cur)
         /\ UNCHANGED << microphone, liveContexts, audioContext, analyser,
                         buttonsActive, volume >>
         /\ uncaught' = TRUE

StopConversation ==
    /\ stopConversation(recState)
    /\ UNCHANGED << fixedVars, currentIndexName, isProcessing, lastTranscript,
                    welcomeTimers, rafPending, liveStreams, pendingStarts,
                    inflight, whiteboard >>

\* ------------------------------------------ recognition.onerror / onend
ErrorKinds == {"no-speech", "not-allowed", "network"}

\* the recognizer reports an error (its end event follows)
RecognitionError(kind) ==
    /\ supported
    /\ recState = "running"
    /\ IF kind = "not-allowed"
       THEN stopConversation("ending")
       ELSE /\ recState' = "ending"
            /\ CommitW(Cur)
            /\ UNCHANGED << isConversationActive, microphone, liveContexts,
                            audioContext, analyser, buttonsActive,
                            volume >>
            /\ uncaught' = FALSE
    /\ UNCHANGED << fixedVars, currentIndexName, isProcessing, lastTranscript,
                    welcomeTimers, rafPending, liveStreams, pendingStarts,
                    inflight, whiteboard >>

\* onend without the restart
RecognitionEnd_NoRestart ==
    /\ supported
    /\ recState # "idle"
    /\ recState' = "idle"
    /\ uncaught' = FALSE
    /\ UNCHANGED << fixedVars, currentIndexName, flagVars,
                    lastTranscript, timerVars, synthVars, captureVars,
                    inflight, uiVars, window >>

\* the recognizer ends: stop() completed, an error, or its own time-out
RecognitionEnd ==
    /\ supported
    /\ recState # "idle"
    /\ recState' = IF isConversationActive THEN recognitionStart("idle")
                                           ELSE "idle"
    /\ uncaught' = FALSE
    /\ UNCHANGED << fixedVars, currentIndexName, flagVars, lastTranscript,
                    timerVars, synthVars, captureVars, inflight, uiVars,
                    window >>

\* --------------------------------------------------------------- behaviour
Next ==
    \/ \E v \in {"", "m1"} : SelectMaterial(v)
    \/ startConversation
    \/ \E level \in Levels : MicGranted(level)
    \/ MicDenied
    \/ StopConversation
    \/ WelcomeTimeout
    \/ \E r \in Results : onresult(r[1], r[2])
    \/ \E kind \in ErrorKinds : RecognitionError(kind)
    \/ RecognitionEnd
    \/ \E orphan \in BOOLEAN : SilenceTimeout(orphan)
    \/ \E i \in 1..MaxInflight, outcome \in Outcomes : AskSettles(i, outcome)
    \/ \E level \in Levels : AnimationFrame(level)
    \/ UtteranceStart
    \/ UtteranceEnd
    \/ UtteranceError
    \/ \E asEnd \in BOOLEAN : CancelledCallback(asEnd)

Spec == Init /\ [][Next]_vars

\* the recognizer delivers its end event after stop(), after an error and
\* after its own time-out
LiveSpec == Spec /\ WF_vars(RecognitionEnd)

\* the text mode of AITeacher on its own: it shares with the voice
\* conversation the selection, which it only reads, and the whiteboard, which
\* nothing reads
TextNext ==
    \/ \E v \in {"", "m1"} : SelectMaterial(v)
    \/ \E raw \in TextInputs : TypeQuestion(raw)
    \/ askTextQuestion
    \/ \E i \in 1..MaxText, outcome \in TextOutcomes : TextSettles(i, outcome)

TextSpec == Init /\ [][TextNext]_vars

TypeOK ==
    /\ supported \in BOOLEAN
    /\ pendingSilence \in 0..MaxTimers
    /\ cancelledEvents \in 0..MaxCancelled
    /\ Len(inflight) <= MaxInflight
    /\ liveStreams + pendingStarts <= MaxStarts
    /\ Len(queued) <= MaxQueued
    /\ Len(textRequests) <= MaxText

\* ================================================================== claims
\* steps named by the handler that takes them
SilenceExpires == \E orphan \in BOOLEAN : SilenceTimeout(orphan)
Stopped == StopConversation \/ RecognitionError("not-allowed")
Interrupted == isSpeaking /\ ~isSpeaking' /\ utterance' = None
                 /\ status' = "listening"

\* C1 as stated: every silence window opened by final transcripts ends, while
\* the conversation stays active, with its timer expiring, that is, with
\* processQuestion invoked (once, with the last transcript).
C1_AlwaysInvoked ==
    [][ (pendingSilence > 0 /\ pendingSilence' = 0 /\ isConversationActive')
        => (SilenceExpires /\ lastTranscript = window.last) ]_vars

\* C1 amended: at most one silence timer is ever pending; when it expires
\* processQuestion is invoked with the last non-empty final transcript of the
\* window and no timer is left, so a window yields at most one invocation; a
\* window ends without invocation only when handleInterruption or
\* stopConversation clears its timer.
C1_Debounce ==
    /\ [](pendingSilence <= 1 /\ (pendingSilence = 1 <=> silenceTimeout))
    /\ [][ SilenceExpires
           => (/\ window.n > 0
               /\ lastTranscript = window.last
               /\ pendingSilence' = 0) ]_vars
    /\ [][ (pendingSilence > 0 /\ pendingSilence' = 0)
           => (SilenceExpires \/ Interrupted \/ Stopped) ]_vars

\* C1 witness: two or more final transcripts coalesced into one pending timer
C1_Witness ==
    /\ window.n = 2
    /\ pendingSilence = 1
    /\ lastTranscript = window.last

\* steps of the monitoring loop and of the recognizer's result handler
Tick(level) == AnimationFrame(level)
Result(raw, isFinal) == onresult(raw, isFinal)
Settled == Len(inflight') < Len(inflight)
\* the utterance most recently given to speechSynthesis.speak
LastUtterance ==
    IF queued = << >> THEN utterance
    ELSE [text |-> queued[Len(queued)], started |-> FALSE]

\* what a step leaves alone when it cancels nothing and clears no timer
NothingCancelled ==
    /\ UNCHANGED << utterance, cancelledEvents, isSpeaking >>
    /\ pendingSilence' >= pendingSilence

\* C2: a tick that samples a level above INTERRUPTION_THRESHOLD while
\* isSpeaking cancels synthesis, resets isSpeaking and shows Listening within
\* that tick; a tick or a recognition result taken while isSpeaking is false
\* cancels nothing, clears no timer and (for a tick) changes no status.
\* The second and third conjuncts are written contrapositively: a step from a
\* non-speaking state that cancels or clears something is neither a tick nor
\* a recognition result.
C2_BargeIn ==
    /\ [][ \A level \in Levels :
             (isSpeaking /\ isConversationActive /\ analyser
                /\ level > INTERRUPTION_THRESHOLD /\ Tick(level))
             => (/\ ~isSpeaking'
                 /\ utterance' = None
                 /\ utterance # None
                 /\ status' = "listening") ]_vars
    /\ [][ (~isSpeaking /\ ~(NothingCancelled /\ UNCHANGED status))
           => \A level \in Levels : ~Tick(level) ]_vars
    /\ [][ (~isSpeaking /\ ~NothingCancelled)
           => \A r \in Results : ~Result(r[1], r[2]) ]_vars

\* C2 witness: the loop is running, its last sample was above the threshold,
\* and the utterance was cancelled: not speaking, status Listening
C2_Witness ==
    /\ isConversationActive /\ rafPending > 0
    /\ volume > INTERRUPTION_THRESHOLD
    /\ ~isSpeaking /\ utterance = None /\ cancelledEvents = 1
    /\ status = "listening"

\* C3: a recognition result whose trimmed transcript has fewer than 3
\* characters leaves synthesis, isSpeaking and the status as they were, and no
\* /ask request ever carries a question of fewer than 3 characters.
\* The first conjunct is written contrapositively: a step that changes any of
\* these is not the result handler taking a short transcript.
C3_ShortIgnored ==
    /\ [][ ~(/\ UNCHANGED << utterance, cancelledEvents, isSpeaking >>
             /\ UNCHANGED << status, inflight, isProcessing >>)
           => \A r \in Results :
                Len(Trim(r[1])) < MinQuestionLen => ~Result(r[1], r[2]) ]_vars
    /\ [](\A i \in DOMAIN inflight :
             Len(inflight[i].question) >= MinQuestionLen)
    /\ [][ (Len(lastTranscript) < MinQuestionLen /\ SilenceExpires)
           => inflight' = inflight ]_vars

\* C3 witness: a short final transcript is pending while the assistant keeps
\* speaking, and nothing is in flight
C3_Witness ==
    /\ isSpeaking /\ utterance.started
    /\ lastTranscript = <<"h", "i">>
    /\ pendingSilence = 1
    /\ inflight = << >>

\* C4: at most one /ask request is in flight, exactly while isProcessing; a
\* silence expiry during processing sends nothing and keeps nothing for
\* later; the response that is rendered and spoken is that of the most
\* recently dispatched request.
C4_OneInFlight ==
    /\ [](Len(inflight) <= 1 /\ (isProcessing <=> Len(inflight) = 1))
    /\ [][ (isProcessing /\ SilenceExpires)
           => (/\ inflight' = inflight
               /\ lastTranscript' = << >>
               /\ pendingSilence' = 0) ]_vars
    /\ [][ Settled
           => (/\ inflight' = << >>
               /\ whiteboard' \in { AnswerTo(inflight[Len(inflight)].question),
                                    ApologyText }
               /\ LastUtterance' =
                     [text |-> whiteboard', started |-> FALSE]) ]_vars

\* C4 witness: a request is in flight while a processable transcript waits
\* for its silence timer
C4_Witness ==
    /\ isProcessing /\ Len(inflight) = 1
    /\ pendingSilence = 1
    /\ Len(lastTranscript) >= MinQuestionLen

\* the state stopConversation leaves, which a further call must not change
StopIsNoOp ==
    /\ ~isConversationActive /\ ~isSpeaking
    /\ recState # "running"
    /\ utterance = None
    /\ ~microphone /\ ~audioContext /\ ~analyser
    /\ ~silenceTimeout
    /\ status = "stopped" /\ ~buttonsActive /\ volume = 0

\* C5: stopConversation raises no exception and leaves a state that a second
\* call leaves unchanged.
C5_StopIdempotent ==
    [][ StopConversation => (~uncaught' /\ StopIsNoOp') ]_vars

\* C6: a /ask response that arrives while the conversation is stopped is not
\* rendered, starts no synthesis and does not touch the speaking state.
C6_LateResponseIgnored ==
    [][ (Settled /\ ~isConversationActive)
        => UNCHANGED << whiteboard, utterance, isSpeaking >> ]_vars

\* C7: stopConversation leaves no silence timer pending, and a welcome timer
\* that expires while the conversation is stopped starts no synthesis.
C7_NoTimerAfterStop ==
    /\ [][ Stopped => pendingSilence' = 0 ]_vars
    /\ [][ (welcomeTimers' < welcomeTimers /\ ~isConversationActive)
           => UNCHANGED << utterance, inflight >> ]_vars

\* C8: when startConversation has succeeded, a checkAudioLevel callback is
\* pending, and it stays so while the conversation is active.
C8_MonitoringRuns ==
    /\ [][ (\E level \in Levels : MicGranted(level)) => rafPending' > 0 ]_vars
    /\ [][ (rafPending > 0 /\ isConversationActive')
           => rafPending' > 0 ]_vars

\* C9: the controller holds at most one microphone stream and one audio
\* context, and none while the conversation is stopped.
C9_CaptureScoped ==
    /\ liveContexts <= 1
    /\ liveStreams <= 1
    /\ (~isConversationActive => (liveContexts = 0 /\ liveStreams = 0))

\* C10: when the /ask request fails while the conversation is active, the
\* apology is rendered and given to the synthesizer, isProcessing is reset and
\* the conversation stays active; when the apology has been spoken to its end
\* the status is Listening and isSpeaking is false.
C10_FailureRecovers ==
    /\ [][ \A i \in 1..MaxInflight, outcome \in Outcomes \ {"ok"} :
             (isConversationActive /\ AskSettles(i, outcome))
             => (/\ whiteboard' = ApologyText
                 /\ LastUtterance' =
                       [text |-> ApologyText, started |-> FALSE]
                 /\ ~isProcessing'
                 /\ isConversationActive') ]_vars
    /\ [][ (utterance.text = ApologyText /\ utterance.started
              /\ isConversationActive /\ UtteranceEnd)
           => (status' = "listening" /\ ~isSpeaking'
                 /\ isConversationActive') ]_vars

\* C10 witness: the apology is on the whiteboard, it has been spoken, and the
\* active conversation is listening again with no request in flight
C10_Witness ==
    /\ whiteboard = ApologyText
    /\ isConversationActive /\ status = "listening"
    /\ utterance = None /\ cancelledEvents = 0
    /\ ~isSpeaking /\ ~isProcessing /\ inflight = << >>

\* C11: with no material selected (getCurrentPdf() null or empty),
\* startConversation shows the error status and changes nothing else: no
\* getUserMedia request, no recognition start, isConversationActive as it
\* was; and no getUserMedia request is ever made without a selection.
C11_NoMaterialNoStart ==
    /\ [][ (currentIndexName \in {Null, ""} /\ startConversation)
           => (/\ status' = "error"
               /\ UNCHANGED << pendingStarts, liveStreams, liveContexts,
                               recState, isConversationActive, welcomeTimers,
                               buttonsActive, rafPending >>) ]_vars
    /\ [][ pendingStarts' > pendingStarts
           => currentIndexName \notin {Null, ""} ]_vars

\* C11 witness: the material list never loaded, startConversation was called
\* and reported the error; nothing was requested or started
C11_Witness ==
    /\ supported /\ currentIndexName = Null
    /\ status = "error"
    /\ pendingStarts = 0 /\ liveStreams = 0
    /\ recState = "idle" /\ ~isConversationActive

\* C12: when getUserMedia fails, the error status is shown and the
\* conversation does not start: isConversationActive stays as it was (false
\* stays false), recognition is not started, no welcome timer is scheduled
\* and nothing is captured.
C12_MicFailureNoStart ==
    /\ [][ MicDenied
           => (/\ status' = "error"
               /\ UNCHANGED << isConversationActive, recState, welcomeTimers,
                               liveStreams, liveContexts, rafPending,
                               buttonsActive, utterance >>) ]_vars
    /\ [][ (isConversationActive' /\ ~isConversationActive)
           => liveStreams' > liveStreams ]_vars

\* C12 witness: a material is selected, the error is shown, no request is
\* pending and nothing was captured or started
C12_Witness ==
    /\ supported /\ currentIndexName = "m1"
    /\ status = "error"
    /\ pendingStarts = 0 /\ liveStreams = 0 /\ liveContexts = 0
    /\ ~isConversationActive /\ recState = "idle"
    /\ welcomeTimers = 0 /\ utterance = None /\ ~buttonsActive

\* C13: a 'not-allowed' error of the recognizer forces the conversation to
\* Stopped: isConversationActive is false, synthesis is cancelled, the capture
\* resources are released (fields cleared, no stream, no audio context left),
\* and the end event that follows restarts nothing.
C13_PermissionErrorStops ==
    /\ [][ RecognitionError("not-allowed")
           => (/\ ~isConversationActive'
               /\ utterance' = None /\ ~isSpeaking'
               /\ ~microphone' /\ ~audioContext' /\ ~analyser'
               /\ liveStreams' = 0 /\ liveContexts' = 0) ]_vars
    /\ [][ (~isConversationActive /\ RecognitionEnd)
           => recState' = "idle" ]_vars

\* C14: when the recognizer ends while isConversationActive, onend restarts
\* it and raises nothing; when it ends while the flag is false it is left
\* idle; a 'no-speech' error changes nothing of the controller.  Hence, where
\* a recognizer exists, recognition that is not running while the
\* conversation is active is eventually running again, unless the
\* conversation is stopped first.
C14_Supervision ==
    /\ [][ RecognitionEnd
           => (/\ recState' = IF isConversationActive THEN "running"
                                                       ELSE "idle"
               /\ ~uncaught') ]_vars
    /\ [][ RecognitionError("no-speech")
           => (/\ recState' = "ending"
               /\ UNCHANGED << flagVars, lastTranscript, timerVars,
                               synthVars, captureVars, inflight, uiVars >>) ]_vars
    /\ [](supported /\ isConversationActive => recState # "idle")
    /\ (supported /\ isConversationActive /\ recState # "running")
          ~> (recState = "running" \/ ~isConversationActive)

\* C14 witness: in the only conversation started so far the recognizer
\* reported a benign error and is about to end while the conversation is
\* active
C14_Witness ==
    /\ supported /\ isConversationActive
    /\ recState = "ending"
    /\ liveStreams = 1 /\ pendingStarts = 0

\* C15: on a platform without speech recognition no conversation is
\* possible: the controller constructed there never has isConversationActive
\* true and never shows the listening status or the active buttons.
C15_UnsupportedDisabled ==
    ~supported => (/\ ~isConversationActive
                   /\ status # "listening"
                   /\ ~buttonsActive)

\* C16: a POST /ask that returns a non-success status is a failure on the
\* voice path and on the text path: the failure outcome is shown and the body
\* is not rendered as an answer.
C16_HttpErrorIsFailure ==
    /\ [][ \A i \in 1..MaxInflight :
             AskSettles(i, "http_error") => whiteboard' = ApologyText ]_vars
    /\ [][ \A i \in 1..MaxText :
             \A outcome \in {"http_error_json", "http_error_text"} :
               TextSettles(i, outcome)
               => (whiteboard' = TextErrorText
                     /\ questionInput' = questionInput) ]_vars

\* the steps that call speak(): the welcome timer and the settled request
Speaks == WelcomeTimeout \/ Settled

\* C17: after speak(text) the synthesizer holds only the new utterance, and
\* after stopSpeaking() it holds none, whether the previous utterance was
\* playing or not yet started; so no utterance is ever queued behind another.
C17_SingleUtterance ==
    /\ [](queued = << >>)
    /\ [][ (supported /\ Speaks)
           => (~utterance'.started /\ queued' = << >>) ]_vars
    /\ [][ (supported /\ Stopped)
           => (utterance' = None /\ queued' = << >>) ]_vars

\* C18: the error signal of an utterance leaves the controller as its end
\* signal would: isSpeaking false and, while the conversation is active, the
\* Listening status.
C18_ErrorIsEnd ==
    [][ (UtteranceError \/ CancelledCallback(FALSE))
        => (/\ ~isSpeaking'
            /\ status' = IF isConversationActive THEN "listening"
                                                  ELSE status) ]_vars

\* C19: isSpeaking and isProcessing are never both true, and the answer to a
\* request is given to the synthesizer, not yet started, in the step that
\* resets isProcessing.
C19_NeverBoth ==
    /\ [](~(isSpeaking /\ isProcessing))
    /\ [][ Settled
           => (~isProcessing' /\ ~isSpeaking'
                 /\ ~LastUtterance'.started) ]_vars

\* C20: every /ask request, of the voice path and of the text path, carries
\* the identifier of a selected material: none is sent with a null or empty
\* index_name.
C20_RequestNamesMaterial ==
    /\ \A i \in DOMAIN inflight : inflight[i].index_name \notin {Null, ""}
    /\ \A i \in DOMAIN textRequests :
          textRequests[i].index_name \notin {Null, ""}

\* C21: a final transcript of fewer than 3 characters that arrives while a
\* longer final transcript waits in the silence window leaves that
\* transcript pending, so that it is the one dispatched when the window
\* elapses.
C21_ShortKeepsPending ==
    [][ \A r \in Results :
          (/\ r[2] /\ Len(Trim(r[1])) < MinQuestionLen
           /\ pendingSilence > 0
           /\ Len(lastTranscript) >= MinQuestionLen
           /\ Result(r[1], r[2]))
          => (lastTranscript' = lastTranscript /\ pendingSilence' > 0) ]_vars

\* C22: a recognition result, interim or final, whose transcript is longer
\* than 3 characters and that arrives while isSpeaking, within its own
\* handling cancels synthesis, resets isSpeaking, clears the silence timer
\* that was pending (the only timer left is the one a final result arms for
\* itself) and shows Listening.
C22_TranscriptBargeIn ==
    /\ [](isSpeaking => (utterance # None /\ utterance.started))
    /\ [][ \A r \in Results :
             (isSpeaking /\ Len(Trim(r[1])) > InterruptLen
                /\ Result(r[1], r[2]))
             => (/\ utterance' = None /\ queued' = << >>
                 /\ cancelledEvents' = cancelledEvents + 1
                 /\ ~isSpeaking'
                 /\ status' = "listening"
                 /\ pendingSilence' = IF r[2] THEN 1 ELSE 0
                 /\ silenceTimeout' = r[2]) ]_vars

\* C22 witness: in a first conversation (whose level monitor never runs) an
\* interim transcript cancelled the utterance that was being spoken: nothing
\* is spoken or pending, a callback is owed, the status is Listening
C22_Witness ==
    /\ isConversationActive /\ liveStreams = 1 /\ rafPending = 0
    /\ ~isSpeaking /\ utterance = None /\ cancelledEvents = 1
    /\ status = "listening"
    /\ pendingSilence = 0 /\ lastTranscript = << >>
    /\ ~isProcessing /\ whiteboard = ReadyBanner

\* C23: isSpeaking follows the utterance most recently submitted: while it
\* has started and has not ended, failed or been cancelled, isSpeaking is
\* true; the late end/error callback of a cancelled utterance does not
\* reset it.
C23_TracksCurrent ==
    /\ [](LastUtterance.started => isSpeaking)
    /\ [][ \A asEnd \in BOOLEAN :
             (utterance.started /\ isSpeaking /\ CancelledCallback(asEnd))
             => isSpeaking' ]_vars

\* C24: no voice /ask request is dispatched while the conversation is
\* stopped, and a recognition result delivered while it is stopped arms no
\* silence timer.
C24_NoDispatchWhenStopped ==
    /\ [][ Len(inflight') > Len(inflight) => isConversationActive ]_vars
    /\ [][ \A r \in Results :
             (~isConversationActive /\ Result(r[1], r[2]))
             => (pendingSilence' = 0 /\ ~silenceTimeout') ]_vars

\* C25: a final transcript of at least MinQuestionLen characters that
\* interrupts the assistant leaves the silence timer armed for that same
\* transcript, and when that timer expires with no request in flight the
\* transcript is dispatched.
C25_InterruptingKept ==
    /\ [][ \A r \in Results :
             (isSpeaking /\ r[2] /\ Len(Trim(r[1])) >= MinQuestionLen
                /\ Result(r[1], r[2]) /\ Interrupted)
             => (/\ lastTranscript' = Trim(r[1])
                 /\ window'.last = Trim(r[1])
                 /\ pendingSilence' = 1 /\ silenceTimeout') ]_vars
    /\ [][ (/\ ~isProcessing /\ Len(lastTranscript) >= MinQuestionLen
            /\ SilenceExpires)
           => (/\ isProcessing'
               /\ inflight' = Append(inflight,
                                      [question |-> lastTranscript,
                                       index_name |-> currentIndexName])) ]_vars

C25_Witness ==
    /\ isConversationActive /\ liveStreams = 1 /\ rafPending = 0
    /\ ~isSpeaking /\ utterance = None /\ cancelledEvents = 1
    /\ status = "listening"
    /\ pendingSilence = 1 /\ silenceTimeout
    /\ lastTranscript = <<"w", "h", "a", "t">>
    /\ window.last = lastTranscript
    /\ ~isProcessing /\ whiteboard = ReadyBanner

====
